---- MODULE Spec2Model ----
(***************************************************************************)
(* A model of fix_pixel_art.py: diversity-first posterize (farthest-point  *)
(* palette, one k-medoids pass, chunked nearest-colour mapping), grid-step *)
(* estimation from edge profiles, block-mode downscale, and the pipeline   *)
(* fix_pixel_art that chains them.                                         *)
(*                                                                         *)
(* Arrays are records [h, w, d] with d the row-major flat contents over    *)
(* 0..h*w-1, as numpy lays them out; 1-D arrays are functions over 0..n-1. *)
(* Lab coordinates are kept in tenths (fixed point); square roots are      *)
(* floored integer square roots of the fixed-point squares.                *)
(***************************************************************************)
EXTENDS Integers, Sequences, FiniteSets, TLC

\* ----------------------------------------------------------------- bounds
MaxPixels == 4       \* posterize runs: images with h*w <= MaxPixels
MaxColors == 3       \* requested palette sizes 1..MaxColors
MaxChunk == 2        \* map_chunk in 1..MaxChunk
MaxDsPixels == 6     \* downscale runs: indexed images with h*w <= MaxDsPixels
MaxBlock == 3        \* downscale runs: sy, sx in 1..MaxBlock
MaxPipePixels == 6   \* pipeline runs: images with h*w <= MaxPipePixels
MaxS == 3            \* pipeline runs: smin, smax in 1..MaxS
RtSide == 3          \* round trips: sources are RtSide x RtSide
RtFactor == 3        \* round trips: replication factor

Bucket == 16         \* round_to / bucket default
DefaultMapChunk == 400000
IndexModulus == 256  \* out_idx is uint8
BincountMinLength == 256

\* ------------------------------------------------------- generic helpers
Min2(a, b) == IF a < b THEN a ELSE b
Max2(a, b) == IF a > b THEN a ELSE b
Abs(a) == IF a < 0 THEN 0 - a ELSE a

Len0(f) == Cardinality(DOMAIN f)

\* an array given by a rule, with its cells computed once
Tab(f) == f @@ <<>>

RECURSIVE SumTo(_, _)
\* sum of f[0..n-1]
SumTo(f, n) == IF n <= 0 THEN 0 ELSE f[n - 1] + SumTo(f, n - 1)

RECURSIVE ISqrtStep(_, _, _)
ISqrtStep(n, lo, hi) ==
    IF lo >= hi THEN lo
    ELSE LET mid == (lo + hi + 1) \div 2
         IN IF mid * mid <= n THEN ISqrtStep(n, mid, hi)
                              ELSE ISqrtStep(n, lo, mid - 1)

\* np.sqrt on a fixed-point square: the floored integer square root
ISqrt(n) == ISqrtStep(n, 0, 4000)

\* np.argmax of a 1-D array: the first index holding the maximum
ArgMax(f) ==
    CHOOSE i \in DOMAIN f :
        /\ \A j \in DOMAIN f : f[j] <= f[i]
        /\ \A j \in DOMAIN f : j < i => f[j] < f[i]

\* np.argmin of a 1-D array: the first index holding the minimum
ArgMin(f) ==
    CHOOSE i \in DOMAIN f :
        /\ \A j \in DOMAIN f : f[j] >= f[i]
        /\ \A j \in DOMAIN f : j < i => f[j] > f[i]

\* ----------------------------------------------------- colour utilities
Black == <<0, 0, 0>>
NearRed == <<250, 5, 5>>
Blue == <<0, 0, 255>>

\* _rgb_to_lab (sRGB -> XYZ D65 -> Lab) tabulated in tenths for the
\* colours the model uses: the pixel colours and their bucket centres.
RgbToLab(rgb) ==
    CASE rgb = <<0, 0, 0>> -> <<0, 0, 0>>
      [] rgb = <<250, 5, 5>> -> <<523, 786, 650>>
      [] rgb = <<0, 0, 255>> -> <<323, 792, -1079>>
      [] rgb = <<8, 8, 8>> -> <<22, 0, 0>>
      [] rgb = <<248, 8, 8>> -> <<520, 779, 638>>
      [] rgb = <<8, 8, 248>> -> <<318, 763, -1047>>

DeltaE76(lab1, lab2) ==
    LET d1 == lab1[1] - lab2[1]
        d2 == lab1[2] - lab2[2]
        d3 == lab1[3] - lab2[3]
    IN ISqrt(d1 * d1 + d2 * d2 + d3 * d3)

\* ------------------------------------------------ candidate construction
\* np.arange(0, n, step) as a 0-based array
ARange(n, step) == Tab([k \in 0..((n + step - 1) \div step) - 1 |-> k * step])

\* _sample_uniform_grid: img[yy, xx] over the meshgrid, flattened row-major
SampleUniformGrid(im, step) ==
    LET ys == ARange(im.h, step)
        xs == ARange(im.w, step)
        ny == Len0(ys)
        nx == Len0(xs)
    IN Tab([k \in 0..(ny * nx - 1) |-> im.d[ys[k \div nx] * im.w + xs[k % nx]]])

\* (rgb // round_to) * round_to + round_to // 2, per channel
BucketColor(rgb, round_to) ==
    [c \in 1..3 |-> (rgb[c] \div round_to) * round_to + round_to \div 2]

\* lexicographic order on RGB rows, as np.unique(axis=0) sorts them
LexLess(a, b) ==
    \/ a[1] < b[1]
    \/ a[1] = b[1] /\ a[2] < b[2]
    \/ a[1] = b[1] /\ a[2] = b[2] /\ a[3] < b[3]

\* _dedup_colors: uq = sorted unique rows, idx = first occurrence of each,
\* result = uq[idx.argsort()]
DedupColors(rgb, round_to) ==
    LET q == Tab([k \in DOMAIN rgb |-> BucketColor(rgb[k], round_to)])
        rows == {q[k] : k \in DOMAIN q}
        m == Cardinality(rows)
        uq == Tab([r \in 0..m - 1 |->
                 CHOOSE c \in rows : Cardinality({x \in rows : LexLess(x, c)}) = r])
        idx == Tab([r \in 0..m - 1 |->
                 CHOOSE k \in DOMAIN q :
                     q[k] = uq[r] /\ \A j \in DOMAIN q : j < k => q[j] # uq[r]])
        argsort == Tab([p \in 0..m - 1 |->
                 CHOOSE r \in 0..m - 1 :
                     Cardinality({x \in 0..m - 1 : idx[x] < idx[r]}) = p])
    IN Tab([p \in 0..m - 1 |-> uq[argsort[p]]])

CandLab(cand_rgb) == Tab([k \in DOMAIN cand_rgb |-> RgbToLab(cand_rgb[k])])

\* ------------------------------------------------ farthest-point palette
\* seed_idx = argmax of chroma sqrt(a^2 + b^2)
SeedIdx(cand_lab) ==
    ArgMax(Tab([k \in DOMAIN cand_lab |->
              ISqrt(cand_lab[k][2] * cand_lab[k][2] + cand_lab[k][3] * cand_lab[k][3])]))

\* dist_fn(cand_lab, cand_lab[i:i+1]).reshape(N)
DistToCand(cand_lab, i) ==
    Tab([k \in DOMAIN cand_lab |-> DeltaE76(cand_lab[k], cand_lab[i])])

\* state after "chosen = [seed_idx]; dmin = ..."
FPInitState(cand_lab) ==
    LET s == SeedIdx(cand_lab)
    IN [chosen |-> <<s>>, dmin |-> DistToCand(cand_lab, s)]

\* the index the loop body picks: idx = int(np.argmax(dmin))
FPPick(dm) == ArgMax(dm)

\* FPUpdate forgetting the running minimum: dmin = dist to the new pick
FPUpdateOverwrite(cand_lab, dm, idx) == DistToCand(cand_lab, idx)

\* np.minimum(dmin, dist to the new pick)
FPUpdate(cand_lab, dm, idx) ==
    LET dn == DistToCand(cand_lab, idx)
    IN Tab([k \in DOMAIN dm |-> Min2(dm[k], dn[k])])

\* one iteration of "for _ in range(1, K)"
FPIterate(cand_lab, st) ==
    LET idx == FPPick(st.dmin)
    IN [chosen |-> Append(st.chosen, idx),
        dmin |-> FPUpdate(cand_lab, st.dmin, idx)]

RECURSIVE FPLoop(_, _, _)
FPLoop(cand_lab, st, K) ==
    IF Len(st.chosen) >= K THEN st
    ELSE FPLoop(cand_lab, FPIterate(cand_lab, st), K)

\* _farthest_point_palette as a whole: the chosen indices
FarthestPointPalette(cand_lab, K) ==
    FPLoop(cand_lab, FPInitState(cand_lab), K).chosen

\* ------------------------------------------------------- k-medoids pass
\* assign = np.argmin(D, axis=1) with D[i, k] = dist(cand i, palette k)
KmAssign(cand_lab, palette_idx) ==
    Tab([i \in DOMAIN cand_lab |->
           ArgMin(Tab([k \in 0..Len(palette_idx) - 1 |->
                         DeltaE76(cand_lab[i], cand_lab[palette_idx[k + 1]])]))])

\* members = np.where(assign == k)[0], ascending
KmMembers(assign, k) ==
    LET S == {i \in DOMAIN assign : assign[i] = k}
    IN Tab([r \in 0..Cardinality(S) - 1 |->
              CHOOSE i \in S : Cardinality({x \in S : x < i}) = r])

\* the slot's new index: the medoid of its members, or the old index
KmSlot(cand_lab, palette_idx, assign, k) ==
    LET members == KmMembers(assign, k)
        n == Len0(members)
        SD == Tab([r \in 0..n - 1 |->
                 SumTo(Tab([t \in 0..n - 1 |->
                          DeltaE76(cand_lab[members[r]], cand_lab[members[t]])]), n)])
    IN IF n = 0 THEN palette_idx[k + 1] ELSE members[ArgMin(SD)]

\* _kmedoids_one_iter skipping the slots that have no members
KmedoidsDropEmpty(cand_lab, palette_idx) ==
    LET assign == KmAssign(cand_lab, palette_idx)
        keep == {k \in 1..Len(palette_idx) : Len0(KmMembers(assign, k - 1)) > 0}
        nth(r) == CHOOSE k \in keep : Cardinality({x \in keep : x < k}) = r - 1
    IN Tab([r \in 1..Cardinality(keep) |-> KmSlot(cand_lab, palette_idx, assign, nth(r) - 1)])

\* _kmedoids_one_iter
KmedoidsOneIter(cand_lab, palette_idx) ==
    LET assign == KmAssign(cand_lab, palette_idx)
    IN Tab([k \in 1..Len(palette_idx) |-> KmSlot(cand_lab, palette_idx, assign, k - 1)])

\* --------------------------------------------------- nearest-colour map
Unwritten == -1      \* a cell of np.empty not yet assigned

\* K = max(2, int(colors))
PaletteSize(ncolors) == Max2(2, ncolors)

\* palette_rgb = cand_rgb[pal_idx], as a sequence of K colours
PaletteRgb(cand, pidx) == Tab([k \in 1..Len(pidx) |-> cand[pidx[k]]])

\* np.argmin(D, axis=1).astype(np.uint8) for one pixel
NearestIdx(rgb, palette_rgb) ==
    ArgMin(Tab([k \in 0..Len(palette_rgb) - 1 |->
                  DeltaE76(RgbToLab(rgb), RgbToLab(palette_rgb[k + 1]))])) % IndexModulus

\* MapChunkStep storing into out_idx[start+1:end]
MapChunkStepSkipFirst(flat_rgb, palette_rgb, out, st, chunk) ==
    LET n == Len0(flat_rgb)
        end == Min2(st + chunk, n)
    IN [out |-> Tab([p \in DOMAIN out |->
                   IF st < p /\ p < end THEN NearestIdx(flat_rgb[p], palette_rgb)
                                         ELSE out[p]]),
        start |-> end]

\* one pass of the while loop: out_idx[start:end] = ...; start = end
MapChunkStep(flat_rgb, palette_rgb, out, st, chunk) ==
    LET n == Len0(flat_rgb)
        end == Min2(st + chunk, n)
    IN [out |-> Tab([p \in DOMAIN out |->
                   IF st <= p /\ p < end THEN NearestIdx(flat_rgb[p], palette_rgb)
                                          ELSE out[p]]),
        start |-> end]

RECURSIVE MapLoop(_, _, _, _, _)
MapLoop(flat_rgb, palette_rgb, out, st, chunk) ==
    IF st < Len0(flat_rgb)
    THEN LET r == MapChunkStep(flat_rgb, palette_rgb, out, st, chunk)
         IN MapLoop(flat_rgb, palette_rgb, r.out, r.start, chunk)
    ELSE out

\* the 'P' image: out_idx.reshape(H, W) with the palette attached
Paletted(im, out, palette_rgb) ==
    [h |-> im.h, w |-> im.w, d |-> out, palette |-> palette_rgb]

\* posterize_diverse as a whole
PosterizeDiverse(im, ncolors, step, round_to, do_refine, chunk) ==
    LET cand == DedupColors(SampleUniformGrid(im, step), round_to)
        lab == CandLab(cand)
        fp == FarthestPointPalette(lab, PaletteSize(ncolors))
        pidx == IF do_refine THEN KmedoidsOneIter(lab, fp) ELSE fp
        prgb == PaletteRgb(cand, pidx)
        empty == [p \in DOMAIN im.d |-> Unwritten]
    IN Paletted(im, MapLoop(im.d, prgb, empty, 0, chunk), prgb)

\* ------------------------------------------------- grid-step estimation
\* (np.diff(arr, axis=1) != 0).sum(axis=0): per column boundary, the rows
\* whose index changes across it; length W-1
ColStrength(arr) ==
    Tab([j \in 0..arr.w - 2 |->
           Cardinality({i \in 0..arr.h - 1 :
                          arr.d[i * arr.w + j + 1] # arr.d[i * arr.w + j]})])

\* (np.diff(arr, axis=0) != 0).sum(axis=1): per row boundary; length H-1
RowStrength(arr) ==
    Tab([i \in 0..arr.h - 2 |->
           Cardinality({j \in 0..arr.w - 1 :
                          arr.d[(i + 1) * arr.w + j] # arr.d[i * arr.w + j]})])

\* A score is kept exactly.  The normalised profile is
\* (x - mean) / (std + 1e-6); with n = len and S = sum, |x[i] - mean| is
\* |n*x[i] - S| / n, so every non-negative score is num/den times the one
\* positive factor 1 / (n * (std + 1e-6)), divided by sqrt(s).  neg marks the
\* initial -1.0 (divided by sqrt(s)).
InitialScore(s) == [neg |-> TRUE, num |-> 0, den |-> 1, s |-> s]

\* a > b on scores
ScoreGT(a, b) ==
    IF a.neg
    THEN b.neg /\ a.s > b.s
    ELSE \/ b.neg
         \/ a.num * a.num * b.den * b.den * b.s > b.num * b.num * a.den * a.den * a.s

\* the indices of strength[o::s]
Strided(n, o, s) == {i \in 0..n - 1 : i >= o /\ (i - o) % s = 0}

\* n * |strength - mean| per cell
Deviation(strength) ==
    LET n == Len0(strength)
        S == SumTo(strength, n)
    IN Tab([i \in 0..n - 1 |-> Abs(n * strength[i] - S)])

RECURSIVE SumOver(_, _)
SumOver(f, S) ==
    IF S = {} THEN 0
    ELSE LET i == CHOOSE x \in S : TRUE IN f[i] + SumOver(f, S \ {i})

RECURSIVE BestForS(_, _, _, _)
\* the inner loop "for o in range(s)" from offset o on, best_for_s = bfs
BestForS(dev, s, o, bfs) ==
    IF o >= s THEN bfs
    ELSE LET vals == Strided(Len0(dev), o, s)
             score == [neg |-> FALSE, num |-> SumOver(dev, vals),
                       den |-> Cardinality(vals), s |-> s]
         IN IF Cardinality(vals) <= 1 THEN BestForS(dev, s, o + 1, bfs)
            ELSE IF ScoreGT(score, bfs) THEN BestForS(dev, s, o + 1, score)
            ELSE BestForS(dev, s, o + 1, bfs)

RECURSIVE PeriodLoop(_, _, _, _, _)
\* the outer loop "for s in range(lo, min(hi, n) + 1)" from period s on
PeriodLoop(dev, s, last, best_s, best_score) ==
    IF s > last THEN best_s
    ELSE LET score == BestForS(dev, s, 0, InitialScore(s))
         IN IF ScoreGT(score, best_score)
            THEN PeriodLoop(dev, s + 1, last, s, score)
            ELSE PeriodLoop(dev, s + 1, last, best_s, best_score)

\* _best_period; best_s = None is 0 here, and "best_s or 1" maps it to 1
BestPeriod(strength, lo, hi) ==
    LET r == PeriodLoop(Deviation(strength), lo, Min2(hi, Len0(strength)),
                        0, InitialScore(1))
    IN IF r = 0 THEN 1 ELSE r

\* estimate_grid_step_from_edges: <<sy, sx>>
EstimateGridStep(pim, lo, hi) ==
    <<BestPeriod(RowStrength(pim), lo, hi), BestPeriod(ColStrength(pim), lo, hi)>>

\* ------------------------------------------------------ block-mode pool
\* Python's a // b for b # 0
PyFloorDiv(a, b) ==
    IF b > 0 THEN (IF a >= 0 THEN a \div b ELSE 0 - ((0 - a + b - 1) \div b))
    ELSE (IF a <= 0 THEN (0 - a) \div (0 - b)
                    ELSE 0 - ((a + (0 - b) - 1) \div (0 - b)))

\* len(range(n)[:stop])
SliceLen(n, stop) == IF stop < 0 THEN Max2(n + stop, 0) ELSE Min2(stop, n)

\* does ndarray.reshape(dims) of an array of this size raise?  A negative
\* entry is the one dimension numpy infers; two of them, or sizes that do
\* not match, raise ValueError.
ReshapeRaises(size, dims) ==
    LET unknown == {k \in 1..Len(dims) : dims[k] < 0}
        known == [k \in 1..Len(dims) |-> IF dims[k] < 0 THEN 1 ELSE dims[k]]
        prod == known[1] * known[2] * known[3] * known[4]
    IN \/ Cardinality(unknown) > 1
       \/ Cardinality(unknown) = 0 /\ prod # size
       \/ Cardinality(unknown) = 1 /\ (prod = 0 \/ size % prod # 0)

\* BlockMode resolving ties to the highest index
BlockModeLast(blk) ==
    LET bc == [v \in 0..BincountMinLength - 1 |->
                 Cardinality({t \in DOMAIN blk : blk[t] = v})]
        top == CHOOSE c \in {bc[blk[t]] : t \in DOMAIN blk} :
                   \A t \in DOMAIN blk : bc[blk[t]] <= c
    IN CHOOSE v \in {blk[t] : t \in DOMAIN blk} :
           bc[v] = top /\ \A t \in DOMAIN blk : blk[t] > v => bc[blk[t]] < top

\* np.argmax(np.bincount(block, minlength=256)) of one block
BlockMode(blk) ==
    LET bc == [v \in 0..BincountMinLength - 1 |->
                 Cardinality({t \in DOMAIN blk : blk[t] = v})]
        top == CHOOSE c \in {bc[blk[t]] : t \in DOMAIN blk} :
                   \A t \in DOMAIN blk : bc[blk[t]] <= c
    IN CHOOSE v \in 0..BincountMinLength - 1 :
           bc[v] = top /\ \A u \in 0..v - 1 : bc[u] < top

\* downscale_by_mode: [err |-> TRUE] when it raises, else the image
DownscaleByMode(pim, sy, sx) ==
    IF sy = 0 \/ sx = 0 THEN [err |-> TRUE]
    ELSE
      LET H == pim.h
          W == pim.w
          H2 == PyFloorDiv(H, sy) * sy
          W2 == PyFloorDiv(W, sx) * sx
          rows == SliceLen(H, H2)
          cols == SliceLen(W, W2)
          \* arr[:H2, :W2], row-major
          crop == Tab([k \in 0..rows * cols - 1 |->
                         pim.d[(k \div cols) * W + (k % cols)]])
          hb == PyFloorDiv(H2, sy)
          wb == PyFloorDiv(W2, sx)
      IN IF ReshapeRaises(rows * cols, <<hb, sy, wb, sx>>) THEN [err |-> TRUE]
         ELSE
           LET \* reshape(hb, sy, wb, sx).swapaxes(1, 2).reshape(hb*wb, sy*sx)
               blocks == [b \in 0..hb * wb - 1 |->
                            Tab([t \in 0..sy * sx - 1 |->
                                   crop[(((b \div wb) * sy + (t \div sx)) * wb
                                          + (b % wb)) * sx + (t % sx)]])]
               out_flat == Tab([b \in 0..hb * wb - 1 |-> BlockMode(blocks[b])])
           IN [err |-> FALSE,
               img |-> [h |-> hb, w |-> wb, d |-> out_flat, palette |-> pim.palette]]

\* ------------------------------------------------------ pipeline policy
\* the square policy without the minus one
SquareOnly(e) ==
    LET m == IF e[2] < e[1] THEN e[1] ELSE e[2]
    IN <<m, m>>

\* "if sx < sy: sx = sy else: sy = sx", then both minus one
SquareMinusOne(e) ==
    LET m == IF e[2] < e[1] THEN e[1] ELSE e[2]
    IN <<m - 1, m - 1>>

\* ------------------------------------------------------------------ state
VARIABLES
    img,          \* the RGB image handed to posterize_diverse / fix_pixel_art
    colors,       \* requested palette size
    sample_step,  \* sampling stride
    refine,       \* run the k-medoids pass
    map_chunk,    \* pixels mapped per pass
    smin, smax,   \* period search bounds
    override,     \* <<>> for None, or <<sy, sx>>
    pc,           \* position in the running function
    cand_rgb,     \* deduplicated candidates
    chosen, dmin, \* _farthest_point_palette locals
    pal_idx,      \* candidate indices of the palette
    out_idx,      \* flat palette indices
    start,        \* chunk loop cursor
    wcount,       \* stores made into each cell of out_idx
    pal,          \* the quantized 'P' image
    est,          \* estimate_grid_step_from_edges result <<sy, sx>>
    block,        \* <<sy, sx>> after the square / minus-one policy
    ds_args,      \* arguments downscale_by_mode was called with
    fixed,        \* the downscaled image
    ret           \* block size returned by fix_pixel_art

vars == <<img, colors, sample_step, refine, map_chunk, smin, smax, override, pc,
          cand_rgb, chosen, dmin, pal_idx, out_idx, start, wcount,
          pal, est, block, ds_args, fixed, ret>>

inputs == <<img, colors, sample_step, refine, map_chunk, smin, smax, override>>
pipeVars == <<est, block, ds_args, fixed, ret>>

None == <<>>

\* all h x w arrays over a value set, h*w <= n
Arrays(vals, n) ==
    UNION {[h : {hh}, w : {ww}, d : [0..hh * ww - 1 -> vals]] :
             <<hh, ww>> \in {s \in (1..n) \X (1..n) : s[1] * s[2] <= n}}

PixelColors == {Black, NearRed, Blue}

\* ---------------------------- posterize_diverse, palette construction
InitPalette ==
    /\ img \in Arrays(PixelColors, MaxPixels)
    /\ colors \in 1..MaxColors
    /\ sample_step \in 1..2
    /\ refine \in BOOLEAN
    /\ map_chunk = DefaultMapChunk
    /\ smin = 2 /\ smax = 64 /\ override = None
    /\ pc = "sample"
    /\ cand_rgb = <<>> /\ chosen = <<>> /\ dmin = <<>> /\ pal_idx = <<>>
    /\ out_idx = <<>> /\ start = 0 /\ wcount = <<>>
    /\ pal = None /\ est = None /\ block = None /\ ds_args = None
    /\ fixed = None /\ ret = None

\* cand_rgb = _dedup_colors(_sample_uniform_grid(img_np, step), bucket)
BuildCandidates ==
    /\ pc = "sample"
    /\ cand_rgb' = DedupColors(SampleUniformGrid(img, sample_step), Bucket)
    /\ pc' = "fp_seed"
    /\ UNCHANGED <<inputs, chosen, dmin, pal_idx, out_idx, start, wcount, pal, pipeVars>>

\* chosen = [seed_idx]; dmin = dist to the seed
FPSeed ==
    /\ pc = "fp_seed"
    /\ LET st == FPInitState(CandLab(cand_rgb))
       IN chosen' = st.chosen /\ dmin' = st.dmin
    /\ pc' = "fp_loop"
    /\ UNCHANGED <<inputs, cand_rgb, pal_idx, out_idx, start, wcount, pal, pipeVars>>

\* one pass of for _ in range(1, K)
FPStep ==
    /\ pc = "fp_loop"
    /\ Len(chosen) < PaletteSize(colors)
    /\ LET st == FPIterate(CandLab(cand_rgb), [chosen |-> chosen, dmin |-> dmin])
       IN chosen' = st.chosen /\ dmin' = st.dmin
    /\ UNCHANGED <<inputs, pc, cand_rgb, pal_idx, out_idx, start, wcount, pal, pipeVars>>

\* loop exit, then "if refine: pal_idx = _kmedoids_one_iter(...)"
FPReturn ==
    /\ pc = "fp_loop"
    /\ Len(chosen) >= PaletteSize(colors)
    /\ pal_idx' = IF refine THEN KmedoidsOneIter(CandLab(cand_rgb), chosen) ELSE chosen
    /\ out_idx' = [p \in DOMAIN img.d |-> Unwritten]
    /\ wcount' = [p \in DOMAIN img.d |-> 0]
    /\ start' = 0
    /\ pc' = "map"
    /\ UNCHANGED <<inputs, cand_rgb, chosen, dmin, pal, pipeVars>>

\* one pass of while start < flat_rgb.shape[0]
MapChunk ==
    /\ pc = "map"
    /\ start < Len0(img.d)
    /\ LET r == MapChunkStep(img.d, PaletteRgb(cand_rgb, pal_idx), out_idx, start, map_chunk)
       IN /\ out_idx' = r.out
          /\ start' = r.start
          /\ wcount' = [p \in DOMAIN wcount |->
                          IF start <= p /\ p < r.start THEN wcount[p] + 1 ELSE wcount[p]]
    /\ UNCHANGED <<inputs, pc, cand_rgb, chosen, dmin, pal_idx, pal, pipeVars>>

\* loop exit: build and return the paletted image
MapReturn ==
    /\ pc = "map"
    /\ start >= Len0(img.d)
    /\ pal' = Paletted(img, out_idx, PaletteRgb(cand_rgb, pal_idx))
    /\ pc' = "posterized"
    /\ UNCHANGED <<inputs, cand_rgb, chosen, dmin, pal_idx, out_idx, start, wcount, pipeVars>>

NextPalette ==
    \/ BuildCandidates
    \/ FPSeed
    \/ FPStep
    \/ FPReturn

SpecPalette == InitPalette /\ [][NextPalette]_vars

\* ------------------------------- posterize_diverse, nearest-colour map
\* the locals on entry to the chunk loop
BeforeMap(im, ncolors, step, do_refine) ==
    LET cand == DedupColors(SampleUniformGrid(im, step), Bucket)
        st == FPLoop(CandLab(cand), FPInitState(CandLab(cand)), PaletteSize(ncolors))
    IN [cand_rgb |-> cand, chosen |-> st.chosen, dmin |-> st.dmin,
        pal_idx |-> IF do_refine THEN KmedoidsOneIter(CandLab(cand), st.chosen)
                                 ELSE st.chosen]

InitQuantize ==
    /\ img \in Arrays(PixelColors, MaxPixels)
    /\ colors \in 1..MaxColors
    /\ sample_step = 1
    /\ refine = TRUE
    /\ map_chunk \in 1..MaxChunk
    /\ smin = 2 /\ smax = 64 /\ override = None
    /\ pc = "entry"
    /\ cand_rgb = <<>> /\ chosen = <<>> /\ dmin = <<>> /\ pal_idx = <<>>
    /\ out_idx = <<>> /\ start = 0 /\ wcount = <<>>
    /\ pal = None /\ est = None /\ block = None /\ ds_args = None
    /\ fixed = None /\ ret = None

\* everything up to "start = 0": candidates, palette, the empty out_idx
PreparePalette ==
    /\ pc = "entry"
    /\ LET b == BeforeMap(img, colors, sample_step, refine)
       IN /\ cand_rgb' = b.cand_rgb /\ chosen' = b.chosen /\ dmin' = b.dmin
          /\ pal_idx' = b.pal_idx
    /\ out_idx' = [p \in DOMAIN img.d |-> Unwritten]
    /\ wcount' = [p \in DOMAIN img.d |-> 0]
    /\ start' = 0
    /\ pc' = "map"
    /\ UNCHANGED <<inputs, pal, pipeVars>>

NextQuantize ==
    \/ PreparePalette
    \/ MapChunk
    \/ MapReturn

SpecQuantize == InitQuantize /\ [][NextQuantize]_vars

\* ------------------------------------------------- downscale_by_mode run
IndexValues == 0..2
SomePalette == <<<<8, 8, 8>>, <<248, 8, 8>>, <<8, 8, 248>>>>

IndexedImages(n) ==
    UNION {[h : {hh}, w : {ww}, d : [0..hh * ww - 1 -> IndexValues],
            palette : {SomePalette}] :
             <<hh, ww>> \in {s \in (1..n) \X (1..n) : s[1] * s[2] <= n}}

InitDownscale ==
    /\ pal \in IndexedImages(MaxDsPixels)
    /\ block \in (1..MaxBlock) \X (1..MaxBlock)
    /\ pc = "downscale"
    /\ img = None /\ colors = 2 /\ sample_step = 1 /\ refine = TRUE
    /\ map_chunk = DefaultMapChunk /\ smin = 2 /\ smax = 64 /\ override = None
    /\ cand_rgb = <<>> /\ chosen = <<>> /\ dmin = <<>> /\ pal_idx = <<>>
    /\ out_idx = <<>> /\ start = 0 /\ wcount = <<>>
    /\ est = None /\ ds_args = None /\ fixed = None /\ ret = None

\* Downscale with non-positive block sizes clamped to 1
DownscaleClamped ==
    /\ pc = "downscale"
    /\ ds_args' = block
    /\ LET r == DownscaleByMode(pal, Max2(1, block[1]), Max2(1, block[2]))
       IN IF r.err THEN pc' = "error" /\ fixed' = fixed
                   ELSE pc' = "downscaled" /\ fixed' = r.img
    /\ UNCHANGED <<inputs, cand_rgb, chosen, dmin, pal_idx, out_idx, start, wcount,
                   pal, est, block, ret>>

\* fixed = downscale_by_mode(pal, sy, sx)
Downscale ==
    /\ pc = "downscale"
    /\ ds_args' = block
    /\ LET r == DownscaleByMode(pal, block[1], block[2])
       IN IF r.err THEN pc' = "error" /\ fixed' = fixed
                   ELSE pc' = "downscaled" /\ fixed' = r.img
    /\ UNCHANGED <<inputs, cand_rgb, chosen, dmin, pal_idx, out_idx, start, wcount,
                   pal, est, block, ret>>

NextDownscale == Downscale

SpecDownscale == InitDownscale /\ [][NextDownscale]_vars

\* ------------------------------------------------------ fix_pixel_art run
PipeColors == {Black, Blue}
Overrides == {<<2, 1>>, <<10, 10>>, <<0, 1>>, <<1, -1>>, <<-2, 2>>}

InitLocals ==
    /\ sample_step = 1 /\ refine = TRUE /\ map_chunk = DefaultMapChunk
    /\ pc = "fix_entry"
    /\ cand_rgb = <<>> /\ chosen = <<>> /\ dmin = <<>> /\ pal_idx = <<>>
    /\ out_idx = <<>> /\ start = 0 /\ wcount = <<>>
    /\ pal = None /\ est = None /\ block = None /\ ds_args = None
    /\ fixed = None /\ ret = None

Init ==
    /\ img \in Arrays(PipeColors, MaxPipePixels)
    /\ colors \in 2..MaxColors
    /\ \/ override = None /\ smin \in 1..MaxS /\ smax \in 1..MaxS
       \/ override \in Overrides /\ smin = 2 /\ smax = 64
    /\ InitLocals

\* pal = posterize_diverse(img_prep, colors, sample_step, bucket, refine)
Posterize ==
    /\ pc = "fix_entry"
    /\ pal' = PosterizeDiverse(img, colors, sample_step, Bucket, refine, map_chunk)
    /\ pc' = IF override = None THEN "estimate" ELSE "override"
    /\ UNCHANGED <<inputs, cand_rgb, chosen, dmin, pal_idx, out_idx, start, wcount,
                   pipeVars>>

\* sy, sx = estimate_grid_step_from_edges(pal, smin, smax)
Estimate ==
    /\ pc = "estimate"
    /\ est' = EstimateGridStep(pal, smin, smax)
    /\ pc' = "adjust"
    /\ UNCHANGED <<inputs, cand_rgb, chosen, dmin, pal_idx, out_idx, start, wcount,
                   pal, block, ds_args, fixed, ret>>

\* the square and minus-one policy
Adjust ==
    /\ pc = "adjust"
    /\ block' = SquareMinusOne(est)
    /\ pc' = "downscale"
    /\ UNCHANGED <<inputs, cand_rgb, chosen, dmin, pal_idx, out_idx, start, wcount,
                   pal, est, ds_args, fixed, ret>>

\* else: sy, sx = override
TakeOverride ==
    /\ pc = "override"
    /\ block' = override
    /\ pc' = "downscale"
    /\ UNCHANGED <<inputs, cand_rgb, chosen, dmin, pal_idx, out_idx, start, wcount,
                   pal, est, ds_args, fixed, ret>>

\* return pal, (sy, sx), fixed
Return ==
    /\ pc = "downscaled"
    /\ ret' = block
    /\ pc' = "done"
    /\ UNCHANGED <<inputs, cand_rgb, chosen, dmin, pal_idx, out_idx, start, wcount,
                   pal, est, block, ds_args, fixed>>

Next ==
    \/ Posterize
    \/ Estimate
    \/ Adjust
    \/ TakeOverride
    \/ Downscale
    \/ Return

Spec == Init /\ [][Next]_vars

\* ------------------------------------------------------- round trips
\* nearest-neighbour replication of every pixel f x f times
Upscale(src, f) ==
    [h |-> src.h * f, w |-> src.w * f,
     d |-> [k \in 0..src.h * f * src.w * f - 1 |->
              src.d[((k \div (src.w * f)) \div f) * src.w + ((k % (src.w * f)) \div f)]]]

RtColors == {<<8, 8, 8>>, <<8, 8, 248>>}

\* sources in which every grid line separates two different pixels somewhere
RtSources ==
    {src \in [h : {RtSide}, w : {RtSide}, d : [0..RtSide * RtSide - 1 -> RtColors]] :
        /\ \A i \in 0..RtSide - 2 : \E j \in 0..RtSide - 1 :
               src.d[i * RtSide + j] # src.d[(i + 1) * RtSide + j]
        /\ \A j \in 0..RtSide - 2 : \E i \in 0..RtSide - 1 :
               src.d[i * RtSide + j] # src.d[i * RtSide + j + 1]}

InitRoundTrip ==
    /\ img \in {Upscale(src, RtFactor) : src \in RtSources}
    /\ colors = Cardinality(RtColors)
    /\ smin = (RtFactor + 1) \div 2
    /\ smax = 2 * RtFactor
    /\ override = None
    /\ InitLocals

NextRoundTrip ==
    \/ Posterize
    \/ Estimate
    \/ Adjust
    \/ Downscale
    \/ Return

SpecRoundTrip == InitRoundTrip /\ [][NextRoundTrip]_vars

\* ------------------------------------------- properties: posterize_diverse
\* distance from candidate i to the nearest of the candidates in picks
NearestChosenDist(cand_lab, picks, i) ==
    LET ds == {DeltaE76(cand_lab[i], cand_lab[picks[k]]) : k \in 1..Len(picks)}
    IN CHOOSE d \in ds : \A e \in ds : d <= e

\* the palette state: never more than K picks inside the loop; after it
\* exactly K picks and K palette indices, all of them candidates
C2Inv ==
    LET K == PaletteSize(colors)
    IN /\ (pc = "fp_loop" => Len(chosen) <= K)
       /\ (pc \in {"map", "posterized"} =>
             /\ Len(chosen) = K
             /\ \A k \in 1..Len(chosen) : chosen[k] \in DOMAIN cand_rgb
             /\ Len(pal_idx) = K
             /\ \A k \in 1..Len(pal_idx) : pal_idx[k] \in DOMAIN cand_rgb
             /\ \A k \in 1..K :
                  PaletteRgb(cand_rgb, pal_idx)[k] \in {cand_rgb[i] : i \in DOMAIN cand_rgb}
             /\ (Len0(cand_rgb) = 1 =>
                   \A k \in 1..K : PaletteRgb(cand_rgb, pal_idx)[k] = cand_rgb[0]))

\* every pass of the selection loop adds one pick and stays within K
C2LoopAdvances ==
    pc = "fp_loop" /\ pc' = "fp_loop" =>
        Len(chosen') = Len(chosen) + 1 /\ Len(chosen') <= PaletteSize(colors)

\* C2: palette construction returns exactly K entries, each a candidate,
\* with or without the k-medoids pass, also when K >= N and when the image
\* is uniform; the loop adds one entry per pass up to K, so it ends.
C2PaletteSizeAndMembership == []C2Inv /\ [][C2LoopAdvances]_vars

C2Witness ==
    /\ pc = "map" /\ refine /\ colors = 3
    /\ Len0(cand_rgb) = 2 /\ Len(pal_idx) = 3

\* C10: dmin is the distance to the nearest chosen candidate; every pick
\* after the seed is the first candidate of maximal dmin at that moment, so
\* it is at least as far from the chosen set as any candidate, and no pick
\* repeats a colour while fewer are chosen than there are distinct ones.
C10FarthestPointInvariant ==
    pc = "fp_loop" =>
        LET lab == CandLab(cand_rgb)
            N == Len0(cand_rgb)
            distinct == Cardinality({cand_rgb[i] : i \in DOMAIN cand_rgb})
        IN /\ \A i \in 0..N - 1 : dmin[i] = NearestChosenDist(lab, chosen, i)
           /\ \A k \in 2..Len(chosen) :
                LET prev == SubSeq(chosen, 1, k - 1)
                    far(i) == NearestChosenDist(lab, prev, i)
                IN /\ \A i \in 0..N - 1 : far(i) <= far(chosen[k])
                   /\ \A i \in 0..N - 1 : i < chosen[k] => far(i) < far(chosen[k])
                   /\ (k <= distinct =>
                         \A j \in 1..k - 1 : cand_rgb[chosen[j]] # cand_rgb[chosen[k]])

C10Witness ==
    /\ pc = "fp_loop" /\ Len(chosen) = 3 /\ Len0(cand_rgb) = 3
    /\ Cardinality({chosen[k] : k \in 1..3}) = 3

\* the chunk loop's state: cells before the cursor stored once, the rest
\* untouched; on return every cell holds a nearest palette index below K and
\* the whole equals what one chunk over the image gives
C3Inv ==
    LET prgb == PaletteRgb(cand_rgb, pal_idx)
        n == Len0(img.d)
        dist(p, k) == DeltaE76(RgbToLab(img.d[p]), RgbToLab(prgb[k + 1]))
    IN /\ (pc = "map" =>
             /\ start <= n
             /\ \A p \in 0..n - 1 :
                  IF p < start THEN wcount[p] = 1 /\ out_idx[p] # Unwritten
                               ELSE wcount[p] = 0 /\ out_idx[p] = Unwritten)
       /\ (pc = "posterized" =>
             /\ \A p \in 0..n - 1 :
                  /\ wcount[p] = 1
                  /\ pal.d[p] \in 0..PaletteSize(colors) - 1
                  /\ \A k \in 0..PaletteSize(colors) - 1 : dist(p, pal.d[p]) <= dist(p, k)
             /\ pal.d = MapChunkStep(img.d, prgb, [p \in 0..n - 1 |-> Unwritten], 0, n).out
             /\ pal.h = img.h /\ pal.w = img.w)

\* every pass of the chunk loop moves the cursor forward, never past the end
C3CursorAdvances ==
    pc = "map" /\ pc' = "map" => start' > start /\ start' <= Len0(img.d)

\* C3: every pixel gets an index in [0, K) of a palette colour at minimum
\* Lab distance; the chunk loop stores into each cell exactly once, moves
\* its cursor forward on every pass until the end of the image, and its
\* result is the one a single chunk over the whole image gives.
C3ChunkedQuantization == []C3Inv /\ [][C3CursorAdvances]_vars

C3Witness ==
    /\ pc = "posterized" /\ map_chunk = 2 /\ Len0(img.d) = 3
    /\ Cardinality({pal.d[p] : p \in DOMAIN pal.d}) >= 2

\* C8: a requested palette size below 2 is an error: no palette and no
\* indexed image are produced.
C8RejectsSmallK ==
    colors < 2 => pal_idx = <<>> /\ pal = None

\* ---------------------------------------------- properties: downscale
\* occurrences of index v among the source pixels of output cell (i, j)
RegionCount(pim, sy, sx, i, j, v) ==
    Cardinality({rc \in (i * sy..(i + 1) * sy - 1) \X (j * sx..(j + 1) * sx - 1) :
                   pim.d[rc[1] * pim.w + rc[2]] = v})

\* C1: for sy, sx >= 1 the output is (H // sy) x (W // sx); each cell is the
\* most frequent index of its sy x sx source block, the lowest on ties;
\* rows and columns past the last full block have no influence; a
\* monochrome block gives its own index.
C1DownscaleByMode ==
    pc # "downscale" =>
        /\ pc = "downscaled"
        /\ fixed.h = pal.h \div block[1]
        /\ fixed.w = pal.w \div block[2]
        /\ DOMAIN fixed.d = 0..fixed.h * fixed.w - 1
        /\ fixed.palette = pal.palette
        /\ \A i \in 0..fixed.h - 1 : \A j \in 0..fixed.w - 1 :
             LET cell == fixed.d[i * fixed.w + j]
                 cnt(v) == RegionCount(pal, block[1], block[2], i, j, v)
             IN /\ cell \in IndexValues
                /\ \A v \in IndexValues :
                     /\ cnt(v) <= cnt(cell)
                     /\ (v < cell => cnt(v) < cnt(cell))
                     /\ (cnt(v) = block[1] * block[2] => cell = v)

C1Witness ==
    /\ pc = "downscaled" /\ block = <<2, 2>> /\ pal.h = 2 /\ pal.w = 3
    /\ RegionCount(pal, 2, 2, 0, 0, 1) = 2 /\ RegionCount(pal, 2, 2, 0, 0, 2) = 2
    /\ pal.d[2] = 0 /\ pal.d[5] = 0
    /\ fixed.d[0] = 1

\* ------------------------------------------------ properties: pipeline
\* C4: the block size passed to downscale_by_mode is the one returned; with
\* an override it is the override unchanged (no estimate, no square, no
\* minus one) and the output is floor(H/sy) x floor(W/sx); without one it is
\* (m-1, m-1) for m the larger of the estimator's pair.
C4BlockSizePolicy ==
    /\ (ds_args # None =>
          /\ ds_args = block
          /\ (override # None => ds_args = override /\ est = None)
          /\ (override = None =>
                est # None /\ ds_args = <<Max2(est[1], est[2]) - 1, Max2(est[1], est[2]) - 1>>))
    /\ (pc = "done" =>
          /\ ret = ds_args
          /\ (override # None =>
                fixed.h = img.h \div override[1] /\ fixed.w = img.w \div override[2]))

C4Witness ==
    /\ pc = "done" /\ override = None /\ est[1] # est[2]
    /\ ret = <<2, 2>>

\* C6: downscale_by_mode reached with sy <= 0 or sx <= 0 ends in an error
\* and returns no image, whether the value came from the override or from
\* the minus-one adjustment.
C6NonPositiveBlockRaises ==
    ds_args # None /\ (ds_args[1] <= 0 \/ ds_args[2] <= 0) =>
        pc = "error" /\ fixed = None /\ ret = None

C6Witness ==
    /\ pc = "error" /\ override = None /\ est = <<1, 1>> /\ ds_args = <<0, 0>>

\* C7: with smin > smax, or smin above the profile length, the estimator
\* raises and returns no block size.
C7EmptyRangeRaises ==
    override = None /\ (smin > smax \/ smin > img.w - 1 \/ smin > img.h - 1) =>
        est = None

\* is every pixel of the image the same colour?
Uniform(im) == \A p \in DOMAIN im.d : im.d[p] = im.d[0]

\* C9: for a uniform image and 1 <= smin <= smax with a non-empty search
\* range, the period search returns a fallback period on each axis and the
\* pipeline returns a downscaled image.
C9UniformNotFatal ==
    /\ override = None /\ Uniform(img)
    /\ 1 <= smin /\ smin <= smax /\ smin <= img.w - 1 /\ smin <= img.h - 1
    => /\ (est # None => est[1] >= 1 /\ est[2] >= 1)
       /\ pc # "error"

\* the RGB picture a paletted image shows
Shown(pim) ==
    [h |-> pim.h, w |-> pim.w,
     d |-> [k \in 0..pim.h * pim.w - 1 |-> pim.palette[pim.d[k] + 1]]]

\* img[::f, ::f]
Subsample(im, f) ==
    [h |-> im.h \div f, w |-> im.w \div f,
     d |-> [k \in 0..(im.h \div f) * (im.w \div f) - 1 |->
              im.d[((k \div (im.w \div f)) * f) * im.w + (k % (im.w \div f)) * f]]]

\* C5: on a source replicated RtFactor times the estimator reports
\* (RtFactor, RtFactor) and the pipeline returns the source, pixel for pixel.
C5RoundTrip ==
    /\ (est # None => est = <<RtFactor, RtFactor>>)
    /\ pc # "error"
    /\ (pc = "done" => Shown(fixed) = Subsample(img, RtFactor))

====
